---- MODULE Spec2Model ----
(***************************************************************************)
(* A model of the SKS waveform cutting batch (b01_cut_SKS-waveform.py,     *)
(* utils.py, config.py).  Times are whole seconds counted from the start   *)
(* of a non-leap year; traces are sampled once per second, so a trace      *)
(* that spans [b, e] holds e - b + 1 samples.  Channel codes are tuples of *)
(* one-character strings, e.g. <<"B","H","Z">>.                            *)
(***************************************************************************)
EXTENDS Integers, Sequences, FiniteSets, TLC

VARIABLES
  pc,            \* where the program is
  inp, res,      \* argument and result of a function applied on its own
  world,         \* everything outside the program: configuration, catalog,
                 \* archive, response directory, what the libraries return
  events,        \* main: the loaded catalog
  station_paths, \* main: the station directories as glob listed them
  si, ei,        \* main: positions of the station and the event loop
  stla,          \* main: latitude read for the current station
  disk,          \* the output directory: the files it holds, by path
  log,           \* the paths written in this run, in order
  last,          \* what the latest pass of the per-event body did
  listed,        \* per station directory, the header of the sample file
                 \* glob listed first
  entered,       \* the station directories whose event loop was started
  visited,       \* the (station directory, event index) pairs visited
  run, out1      \* the number of this run; what the first run listed and left

vars == <<pc, inp, res, world, events, station_paths, si, ei, stla, disk, log,
          last, listed, entered, visited, run, out1>>

\* ------------------------------------------------------------ config.py

MIN_DIST == 85
MAX_DIST == 140
OFFSET_PRE == 100
OFFSET_POST == 100
PAD == 20
DAY == 86400

\* ------------------------------------------------------- small helpers

Range(s) == {s[i] : i \in 1..Len(s)}

Min2(a, b) == IF a <= b THEN a ELSE b

Max2(a, b) == IF a >= b THEN a ELSE b

\* str.upper() on one character of a channel code
Upper(c) ==
  CASE c = "z" -> "Z" [] c = "n" -> "N" [] c = "e" -> "E"
    [] c = "b" -> "B" [] c = "h" -> "H" [] c = "l" -> "L"
    [] OTHER -> c

\* ----------------------------------------------- utils.find_waveform_files

\* UTCDateTime(t.year, t.month, t.day): midnight of the day holding t
Midnight(t) == t - (t % DAY)

\* the while loop of lines 71-73, from t on: every midnight below end_time
RECURSIVE DaysFrom(_, _)
DaysFrom(t, end_time) ==
  IF t < end_time THEN <<t>> \o DaysFrom(t + DAY, end_time) ELSE <<>>

\* the loop with "t <= end_time" for its test
RECURSIVE DaysThrough(_, _)
DaysThrough(t, end_time) ==
  IF t <= end_time THEN <<t>> \o DaysThrough(t + DAY, end_time) ELSE <<>>

CheckDaysInclusive(start_time, duration) ==
  DaysThrough(Midnight(start_time), start_time + duration)

CheckDays(start_time, duration) ==
  DaysFrom(Midnight(start_time), start_time + duration)

\* the date of a midnight t as the file name spells it: <<yyyy, mm, dd>>
MonthLen == <<31, 28, 31, 30, 31, 30, 31, 31, 30, 31, 30, 31>>

RECURSIVE MonthDay(_, _)
MonthDay(m, d) ==
  IF d <= MonthLen[m] THEN <<m, d>> ELSE MonthDay(m + 1, d - MonthLen[m])

DateStr(t) ==
  LET idx == t \div DAY
      md == MonthDay(1, (idx % 365) + 1)
  IN <<2021 + (idx \div 365), md[1], md[2]>>

\* file names sort by date, then by channel code (ASCII order)
ChanRank(ch) ==
  CASE ch = <<"B","H","1">> -> 1 [] ch = <<"B","H","2">> -> 2
    [] ch = <<"B","H","E">> -> 3 [] ch = <<"B","H","N">> -> 4
    [] ch = <<"B","H","Z">> -> 5 [] ch = <<"L","H","Z">> -> 6
    [] OTHER -> 7

DateRank(d) == (d[1] * 12 + d[2]) * 32 + d[3]

FileBefore(f, g) ==
  \/ DateRank(f.date) < DateRank(g.date)
  \/ DateRank(f.date) = DateRank(g.date) /\ ChanRank(f.chan) < ChanRank(g.chan)

\* sorted(list(set(file_list))) over a finite set of files
RECURSIVE SortFiles(_)
SortFiles(S) ==
  IF S = {} THEN <<>>
  ELSE LET f == CHOOSE x \in S : \A y \in S \ {x} : FileBefore(x, y)
       IN <<f>> \o SortFiles(S \ {f})

\* glob of one day's pattern yyyy.mm.dd.net.sta.*.sac in the station directory
GlobDay(fs, net, sta, date) ==
  {f \in fs.files : f.net = net /\ f.sta = sta /\ f.date = date}

\* the dates of the patterns built at lines 82-86
Patterns(fs, net, sta, start_time, duration) ==
  IF <<net, sta>> \notin fs.dirs THEN {}
  ELSE {DateStr(d) : d \in Range(CheckDays(start_time, duration))}

find_waveform_files(fs, net, sta, start_time, duration) ==
  SortFiles(UNION {GlobDay(fs, net, sta, date) :
                     date \in Patterns(fs, net, sta, start_time, duration)})

\* -------------------------------------------- utils.check_3c_completeness

Npts(tr) == Max2(0, tr.e - tr.b + 1)

LastChar(ch) == ch[Len(ch)]

\* the check without .upper()
check_3c_case_sensitive(st) ==
  IF Len(st) < 3 THEN FALSE
  ELSE LET comps == {LastChar(st[i].chan) : i \in 1..Len(st)}
           has_Z == "Z" \in comps
           has_NE == "N" \in comps /\ "E" \in comps
           has_12 == "1" \in comps /\ "2" \in comps
       IN IF ~(has_Z /\ (has_NE \/ has_12)) THEN FALSE
          ELSE \A i \in 1..Len(st) : ~(Npts(st[i]) < 10)

check_3c_completeness(st) ==
  IF Len(st) < 3 THEN FALSE
  ELSE LET comps == {Upper(LastChar(st[i].chan)) : i \in 1..Len(st)}
           has_Z == "Z" \in comps
           has_NE == "N" \in comps /\ "E" \in comps
           has_12 == "1" \in comps /\ "2" \in comps
       IN IF ~(has_Z /\ (has_NE \/ has_12)) THEN FALSE
          ELSE \A i \in 1..Len(st) : ~(Npts(st[i]) < 10)

\* ----------------------------------------------------- utils.load_catalog

\* c.lower().strip() on a column header
NormCol(c) ==
  CASE c = "Origin_Time " -> "origin_time" [] c = "EVLO" -> "evlo"
    [] c = " evla" -> "evla" [] c = "EvDp" -> "evdp" [] c = "MAG" -> "mag"
    [] OTHER -> c

required_cols == {"origin_time", "evlo", "evla", "evdp", "mag"}

\* UTCDateTime(str(cell)): a cell is <<month, day, second of day>>, or <<>>
\* for text that is no date; an impossible date does not parse
Parses(cell) ==
  /\ Len(cell) = 3
  /\ cell[1] \in 1..12
  /\ cell[2] \in 1..MonthLen[cell[1]]
  /\ cell[3] \in 0..(DAY - 1)

RECURSIVE DaysBefore(_)
DaysBefore(m) == IF m = 1 THEN 0 ELSE MonthLen[m - 1] + DaysBefore(m - 1)

TimeOf(cell) == (DaysBefore(cell[1]) + cell[2] - 1) * DAY + cell[3]

EventOf(row) ==
  [time |-> TimeOf(row.origin_time), lat |-> row.evla, lon |-> row.evlo,
   depth |-> row.evdp, mag |-> row.mag]

\* the loop with "break" for "continue"
RECURSIVE LoadRowsBreak(_, _)
LoadRowsBreak(rows, i) ==
  IF i > Len(rows) THEN <<>>
  ELSE IF Parses(rows[i].origin_time)
       THEN <<EventOf(rows[i])>> \o LoadRowsBreak(rows, i + 1)
       ELSE <<>>

\* the loop of lines 27-39 over the rows from i on
RECURSIVE LoadRows(_, _)
LoadRows(rows, i) ==
  IF i > Len(rows) THEN <<>>
  ELSE IF Parses(rows[i].origin_time)
       THEN <<EventOf(rows[i])>> \o LoadRows(rows, i + 1)
       ELSE LoadRows(rows, i + 1)

load_catalog(cat) ==
  IF ~cat.exists THEN [ok |-> FALSE, err |-> "FileNotFoundError", events |-> <<>>]
  ELSE IF ~(required_cols \subseteq {NormCol(c) : c \in cat.columns})
       THEN [ok |-> FALSE, err |-> "ValueError", events |-> <<>>]
       ELSE [ok |-> TRUE, err |-> "", events |-> LoadRows(cat.rows, 1)]

\* ------------------------------------------------ obspy stream operations

\* read(f): the one trace a day file holds
ReadFile(f) ==
  [net |-> f.net, sta |-> f.sta, chan |-> f.chan, b |-> f.b, e |-> f.e,
   vel |-> FALSE]

SameId(t, u) == t.net = u.net /\ t.sta = u.sta /\ t.chan = u.chan

\* st.merge(method=1, fill_value='interpolate'): the traces of one id become
\* one trace from the earliest start to the latest end, gaps interpolated;
\* ids keep the order in which they first appear
RECURSIVE Merge(_)
Merge(st) ==
  IF st = <<>> THEN <<>>
  ELSE LET h == Head(st)
           same == SelectSeq(st, LAMBDA t : SameId(t, h))
           rest == SelectSeq(st, LAMBDA t : ~SameId(t, h))
           lo == CHOOSE x \in {t.b : t \in Range(same)} :
                   \A y \in {t.b : t \in Range(same)} : x <= y
           hi == CHOOSE x \in {t.e : t \in Range(same)} :
                   \A y \in {t.e : t \in Range(same)} : x >= y
       IN <<[h EXCEPT !.b = lo, !.e = hi]>> \o Merge(rest)

CutTrace(tr, t1, t2) == [tr EXCEPT !.b = Max2(tr.b, t1), !.e = Min2(tr.e, t2)]

\* st.slice(t1, t2): a cut copy; traces left without samples are dropped
Slice(st, t1, t2) ==
  SelectSeq([i \in 1..Len(st) |-> CutTrace(st[i], t1, t2)],
            LAMBDA t : Npts(t) > 0)

\* st.trim(t1, t2): cuts in place, no padding; obspy drops the traces left
\* without samples (keep_empty_traces=False)
Trim(st, t1, t2) ==
  SelectSeq([i \in 1..Len(st) |-> CutTrace(st[i], t1, t2)],
            LAMBDA t : Npts(t) > 0)

\* ---------------------------------------------------- utils.remove_response

\* the per-trace loop of lines 141-146 / 150-154 from trace i on.  lookup
\* gives, per channel, what the response directory holds: "missing" (the
\* glob is empty), "good", or "bad" (a file is found, removing raises).  An
\* exception leaves the loop: the except clause of line 155 is outside it.
RECURSIVE RemoveFrom(_, _, _)
RemoveFrom(st, i, lookup) ==
  IF i > Len(st) THEN st
  ELSE IF lookup[st[i].chan] = "missing" THEN RemoveFrom(st, i + 1, lookup)
  ELSE IF lookup[st[i].chan] = "bad" THEN st
  ELSE RemoveFrom([st EXCEPT ![i].vel = TRUE], i + 1, lookup)

remove_response(st, mode, resp) ==
  IF mode = "none" THEN st
  ELSE IF mode = "xml"
       THEN IF resp.xml = "good"
            THEN [i \in 1..Len(st) |-> [st[i] EXCEPT !.vel = TRUE]]
            ELSE st
       ELSE RemoveFrom(st, 1, resp.chan)

\* --------------------------------------------------- utils.process_and_save

\* ev['time'].strftime('%Y%m%d_%H%M%S')
StrfTime(t) == DateStr(Midnight(t)) \o <<t % DAY>>

\* lines 111-117 of main: the output directory
OutPath(structure, ev, net, sta) ==
  IF structure = "event" THEN <<"ev", StrfTime(ev.time), ev.mag>>
  ELSE <<"sta", net, sta>>

\* lines 187-221 for one trace: the file written, with its header
SacFile(tr, ev, arrival_time, lat, out_dir) ==
  [path |-> <<out_dir, <<tr.net, tr.sta, tr.chan>>>>,
   evla |-> ev.lat.val, mag |-> ev.mag, stla |-> lat,
   nz |-> ev.time, hb |-> tr.b - ev.time, ha |-> arrival_time - ev.time,
   b |-> tr.b, e |-> tr.e, vel |-> tr.vel]

\* process_and_save trimming to the padded search window
process_and_save_padded(st, ev, arrival_time, lat, out_dir) ==
  LET cut == Trim(st, arrival_time - OFFSET_PRE - PAD,
                  arrival_time + OFFSET_POST + PAD)
  IN IF Len(cut) < 3 \/ Npts(cut[1]) = 0 THEN <<>>
     ELSE [i \in 1..Len(cut) |-> SacFile(cut[i], ev, arrival_time, lat, out_dir)]

\* the files process_and_save writes, in order (detrend, taper and filter
\* change sample values only: RESAMPLE_RATE is None)
process_and_save(st, ev, arrival_time, lat, out_dir) ==
  LET cut == Trim(st, arrival_time - OFFSET_PRE, arrival_time + OFFSET_POST)
  IN IF Len(cut) < 3 \/ Npts(cut[1]) = 0 THEN <<>>
     ELSE [i \in 1..Len(cut) |-> SacFile(cut[i], ev, arrival_time, lat, out_dir)]

\* ------------------------------------------------------------ the archive

BHZ == <<"B","H","Z">>
BHN == <<"B","H","N">>
BHE == <<"B","H","E">>
BH1 == <<"B","H","1">>
BH2 == <<"B","H","2">>
LHZ == <<"L","H","Z">>

NET == "XX"
STA == "S1"

DayFile(chan, day, b, e, lat, readable, corrupt) ==
  [net |-> NET, sta |-> STA, date |-> DateStr(day * DAY), chan |-> chan,
   b |-> b, e |-> e, stla |-> lat, hdr |-> readable, corrupt |-> corrupt]

\* the day files of one channel of station XX.S1, by what the archive holds
\* of it: both days whole, the first day only, a channel that starts 50 s
\* (or 5 s) before the first midnight, a first-day file that cannot be read
FilesFor(chan, kind, lat, readable) ==
  CASE kind = "full" ->
         {DayFile(chan, 0, 0, DAY - 1, lat, readable, FALSE),
          DayFile(chan, 1, DAY, 2 * DAY - 1, 10, TRUE, FALSE)}
    [] kind = "day0" -> {DayFile(chan, 0, 0, DAY - 1, lat, readable, FALSE)}
    [] kind = "late" ->
         {DayFile(chan, 0, DAY - 50, DAY - 1, lat, readable, FALSE),
          DayFile(chan, 1, DAY, 2 * DAY - 1, 10, TRUE, FALSE)}
    [] kind = "tiny" -> {DayFile(chan, 0, DAY - 5, DAY - 1, lat, readable, FALSE)}
    [] kind = "corrupt" -> {DayFile(chan, 0, 0, DAY - 1, lat, readable, TRUE)}
    [] OTHER -> {}

\* the file system under RAW_DATA_DIR: the station directories and the day
\* files of XX.S1.  With hdr "mixed" the BHZ file of the first day carries
\* another station latitude than the rest, with "unreadable" its header
\* cannot be read.
Archive(w) ==
  [dirs |-> {<<NET, STA>>},
   files |->
     FilesFor(BHZ, w.arch[BHZ], IF w.hdr = "mixed" THEN 20 ELSE 10,
              w.hdr # "unreadable")
     \cup UNION {FilesFor(c, w.arch[c], 10, TRUE) : c \in DOMAIN w.arch \ {BHZ}}]

\* the directories glob lists under rawdata/*_day_sac, by the parts of their
\* names between dots: one station, one name without a dot
DirNames == {<<NET, STA>>, <<"NETSTA">>}

\* --------------------------------------------------- the per-event body

\* arrivals[0].time for SKS, when TauP returns an arrival
TravelTime == 1400

\* the distance filter with both ends excluded
InRangeStrict(dist) == MIN_DIST < dist /\ dist < MAX_DIST

InRange(dist) == MIN_DIST <= dist /\ dist <= MAX_DIST

Skip(why, dist) ==
  [outcome |-> why, dist |-> dist, arrival |-> 0, merged |-> <<>>,
   st |-> <<>>, writes |-> <<>>]

\* lines 73-123: from the arrival time to the files written
CutAndSave(w, ev, net, sta, lat, dist, sks_abs) ==
  LET t_search_start == sks_abs - OFFSET_PRE - PAD
      duration == OFFSET_PRE + OFFSET_POST + (2 * PAD)
      files == find_waveform_files(Archive(w), net, sta, t_search_start, duration)
  IN IF files = <<>> THEN Skip("nofiles", dist)
     ELSE IF \E i \in 1..Len(files) : files[i].corrupt
          THEN [Skip("read_raise", dist) EXCEPT !.arrival = sks_abs]
     ELSE LET merged == Merge([i \in 1..Len(files) |-> ReadFile(files[i])])
              st_check == Slice(merged, sks_abs - OFFSET_PRE, sks_abs + OFFSET_POST)
          IN IF ~check_3c_completeness(st_check)
             THEN [Skip("incomplete", dist) EXCEPT !.arrival = sks_abs,
                                                   !.merged = merged]
             ELSE LET st == remove_response(merged, w.mode, w.resp)
                      out_path == OutPath(w.structure, ev, net, sta)
                  IN [outcome |-> "saved", dist |-> dist, arrival |-> sks_abs,
                      merged |-> merged, st |-> st,
                      writes |-> process_and_save(st, ev, sks_abs, lat, out_path)]

\* lines 53-71, then the rest: g is what locations2degrees and TauP return
EventBody(w, ev, net, sta, lat, g) ==
  IF ~InRange(g.dist) THEN Skip("dist", g.dist)
  ELSE IF g.tt = "raise" THEN Skip("tt_raise", g.dist)
  ELSE IF g.tt = "none" THEN Skip("tt_none", g.dist)
  ELSE CutAndSave(w, ev, net, sta, lat, g.dist, ev.time + TravelTime)

\* ------------------------------------------------------------------ main

NoRun == [disk |-> {}, station_paths |-> <<>>, listed |-> {}]

Idle == [outcome |-> "idle", dist |-> 0, arrival |-> 0, merged |-> <<>>,
         st |-> <<>>, writes |-> <<>>]

\* a writer that keeps a file already there and writes a second version
RECURSIVE WriteAllVersioned(_, _, _)
WriteAllVersioned(d, writes, i) ==
  IF i > Len(writes) THEN d
  ELSE LET f == writes[i]
           g == IF \E x \in d : x.path = f.path
                THEN [f EXCEPT !.path = <<f.path[1], f.path[2] \o <<"v2">>>>]
                ELSE f
       IN WriteAllVersioned({x \in d : x.path # g.path} \cup {g}, writes, i + 1)

\* tr.write(save_path): a file of that path is replaced
RECURSIVE WriteAll(_, _, _)
WriteAll(d, writes, i) ==
  IF i > Len(writes) THEN d
  ELSE WriteAll({g \in d : g.path # writes[i].path} \cup {writes[i]}, writes, i + 1)

Perms(S) ==
  {p \in [1..Cardinality(S) -> S] : \A i, j \in 1..Cardinality(S) : p[i] = p[j] => i = j}

\* lines 16-21: the catalog is loaded, or main returns
LoadCatalog ==
  /\ pc = "start"
  /\ LET r == load_catalog(world.catalog)
     IN /\ events' = r.events
        /\ pc' = IF r.ok THEN "scan" ELSE "nocatalog"
  /\ UNCHANGED <<inp, res, world, station_paths, si, ei, stla, disk, log, last,
                 listed, entered, visited, run, out1>>

\* lines 26-30: glob lists the station directories, in any order
ScanStations ==
  /\ pc = "scan"
  /\ \E order \in Perms(DirNames) : station_paths' = order
  /\ si' = 1
  /\ pc' = "station"
  /\ UNCHANGED <<inp, res, world, events, ei, stla, disk, log, last, listed,
                 entered, visited, run, out1>>

\* lines 35-49: the next station directory; sample_files[0] is whichever
\* file glob lists first
StationStep ==
  /\ pc = "station"
  /\ IF si > Len(station_paths)
     THEN /\ pc' = "done"
          /\ UNCHANGED <<si, ei, stla, listed, entered>>
     ELSE LET dir_name == station_paths[si]
              sample_files == {f \in Archive(world).files :
                                 <<f.net, f.sta>> = dir_name}
          IN IF Len(dir_name) # 2 \/ sample_files = {}
             THEN /\ si' = si + 1
                  /\ UNCHANGED <<pc, ei, stla, listed, entered>>
             ELSE \E f \in sample_files :
                    /\ listed' = listed \cup {<<dir_name, [hdr |-> f.hdr, stla |-> f.stla]>>}
                    /\ IF ~f.hdr
                       THEN /\ si' = si + 1
                            /\ UNCHANGED <<pc, ei, stla, entered>>
                       ELSE /\ stla' = f.stla
                            /\ ei' = 1
                            /\ entered' = entered \cup {dir_name}
                            /\ pc' = "event"
                            /\ UNCHANGED si
  /\ UNCHANGED <<inp, res, world, events, station_paths, disk, log, last,
                 visited, run, out1>>

\* lines 52-128: one pass of the event loop.  locations2degrees (line 54) is
\* outside every try: what it raises on a latitude that is no number ends main.
EventStep ==
  /\ pc = "event"
  /\ IF ei > Len(events)
     THEN /\ si' = si + 1
          /\ pc' = "station"
          /\ UNCHANGED <<ei, disk, log, last, visited>>
     ELSE LET ev == events[ei]
              dir_name == station_paths[si]
          IN /\ visited' = visited \cup {<<dir_name, ei>>}
             /\ IF ~ev.lat.num
                THEN /\ pc' = "crashed"
                     /\ last' = Skip("crash", 0)
                     /\ UNCHANGED <<si, ei, disk, log>>
                ELSE \E d \in world.dist[<<ev.lat.val, stla>>] :
                       \E t \in world.tt[d] :
                         LET r == EventBody(world, ev, dir_name[1], dir_name[2],
                                            stla, [dist |-> d, tt |-> t])
                         IN /\ last' = r
                            /\ disk' = WriteAll(disk, r.writes, 1)
                            /\ log' = log \o [i \in 1..Len(r.writes) |-> r.writes[i].path]
                            /\ ei' = ei + 1
                            /\ UNCHANGED <<pc, si>>
  /\ UNCHANGED <<inp, res, world, events, station_paths, stla, listed, entered,
                 run, out1>>

\* the batch is started again on the same inputs
Restart ==
  /\ pc = "done"
  /\ run = 1
  /\ run' = 2
  /\ out1' = [disk |-> disk, station_paths |-> station_paths, listed |-> listed]
  /\ pc' = "start"
  /\ events' = <<>>
  /\ station_paths' = <<>>
  /\ si' = 0
  /\ ei' = 0
  /\ stla' = 0
  /\ log' = <<>>
  /\ last' = Idle
  /\ listed' = {}
  /\ entered' = {}
  /\ visited' = {}
  /\ UNCHANGED <<inp, res, world, disk>>

Next == LoadCatalog \/ ScanStations \/ StationStep \/ EventStep

NextRerun == Next \/ Restart

\* ------------------------------------------------------------ the worlds

Num(v) == [num |-> TRUE, val |-> v]

NotANumber == [num |-> FALSE, val |-> 0]

TimeA == <<1, 1, 84900>>
TimeB == <<1, 1, 50000>>

Row(t, lat) ==
  [origin_time |-> t, evla |-> lat, evlo |-> 0, evdp |-> 10, mag |-> 6]

RowKinds ==
  {Row(TimeA, Num(1)), Row(TimeB, Num(2)), Row(TimeA, NotANumber),
   Row(<<2, 30, 0>>, Num(1))}

MaxRows == 2

SeqsUpTo(S, n) == UNION {[1..k -> S] : k \in 0..n}

Catalog(rows) == [exists |-> TRUE, columns |-> required_cols, rows |-> rows]

Catalogs ==
  {Catalog(rows) : rows \in SeqsUpTo(RowKinds, MaxRows) \ {<<>>}}
  \cup {[Catalog(<<>>) EXCEPT !.exists = FALSE],
        [Catalog(<<>>) EXCEPT !.columns = required_cols \ {"mag"}]}

DistValues == {84, 85, 100, 140, 141}

StaLats == {10, 20}

DistKeys == {1, 2} \X StaLats

AnyDist == [k \in DistKeys |-> DistValues]

AnyTT == [d \in DistValues |-> {"ok", "none", "raise"}]

Chans == {BHZ, BHN, BHE, LHZ}

AllGood == [xml |-> "good", chan |-> [c \in Chans |-> "good"]]

ArchFull == [c \in Chans |-> IF c = LHZ THEN "none" ELSE "full"]

InitMain(w) ==
  /\ world = w
  /\ pc = "start"
  /\ inp = <<>>
  /\ res = <<>>
  /\ events = <<>>
  /\ station_paths = <<>>
  /\ si = 0
  /\ ei = 0
  /\ stla = 0
  /\ disk = {}
  /\ log = <<>>
  /\ last = Idle
  /\ listed = {}
  /\ entered = {}
  /\ visited = {}
  /\ run = 1
  /\ out1 = NoRun

\* the batch over every catalog and every answer of the libraries, on a
\* whole archive
Init ==
  \E c \in Catalogs, s \in {"event", "station"}, m \in {"none", "sacpz"},
     h \in {"same", "unreadable"} :
    InitMain([catalog |-> c, structure |-> s, mode |-> m, resp |-> AllGood,
              arch |-> ArchFull, hdr |-> h, dist |-> AnyDist, tt |-> AnyTT])

Spec == Init /\ [][Next]_vars

\* the batch over every state of the archive and of the response directory,
\* on a catalog of two events in range
RespSetups ==
  {[mode |-> "none", resp |-> AllGood]}
  \cup {[mode |-> "xml", resp |-> [AllGood EXCEPT !.xml = k]] :
          k \in {"missing", "good", "bad"}}
  \cup {[mode |-> m, resp |-> [AllGood EXCEPT !.chan = [c \in Chans |->
                                   IF c = BHZ THEN z ELSE IF c = BHN THEN n
                                   ELSE IF c = BHE THEN e ELSE "good"]]] :
          m \in {"sacpz", "resp"}, z \in {"missing", "good", "bad"},
          n \in {"missing", "good", "bad"}, e \in {"missing", "good", "bad"}}

Archives ==
  {[c \in Chans |-> IF c = BHZ THEN z ELSE IF c = BHN THEN "full"
                    ELSE IF c = BHE THEN e ELSE x] :
     z \in {"none", "full", "day0"},
     e \in {"none", "full", "day0", "late", "tiny", "corrupt"},
     x \in {"none", "late"}}
  \cup {[c \in Chans |-> "none"]}

InRangeDist == [k \in DistKeys |-> {100}]

Arrives == [d \in DistValues |-> {"ok"}]

InitData ==
  \E s \in {"event", "station"}, r \in RespSetups, a \in Archives :
    InitMain([catalog |-> Catalog(<<Row(TimeA, Num(1)), Row(TimeB, Num(2))>>),
              structure |-> s, mode |-> r.mode, resp |-> r.resp, arch |-> a,
              hdr |-> "same", dist |-> InRangeDist, tt |-> Arrives])

SpecData == InitData /\ [][Next]_vars

\* the batch run twice on two events, where the libraries answer as
\* functions of their arguments do
OneDist == {[k \in DistKeys |-> {f[k]}] : f \in [DistKeys -> {84, 100}]}

InitRerun ==
  \E s \in {"event", "station"}, h \in {"same", "mixed", "unreadable"},
     d \in OneDist :
    InitMain([catalog |-> Catalog(<<Row(TimeA, Num(1)), Row(TimeB, Num(2))>>),
              structure |-> s, mode |-> "sacpz", resp |-> AllGood,
              arch |-> ArchFull, hdr |-> h, dist |-> d, tt |-> Arrives])

SpecRerun == InitRerun /\ [][NextRerun]_vars

\* ------------------------------------- the functions applied on their own

InitFn(p, x) ==
  /\ pc = p
  /\ inp = x
  /\ res = <<>>
  /\ world = <<>>
  /\ events = <<>>
  /\ station_paths = <<>>
  /\ si = 0
  /\ ei = 0
  /\ stla = 0
  /\ disk = {}
  /\ log = <<>>
  /\ last = Idle
  /\ listed = {}
  /\ entered = {}
  /\ visited = {}
  /\ run = 1
  /\ out1 = NoRun

Others == <<world, events, station_paths, si, ei, stla, disk, log, last,
            listed, entered, visited, run, out1>>

\* find_waveform_files on a start time, a duration and a file system
StartDays == {0, 1, 30, 58, 363, 364}

StartOffsets == {0, 1, DAY \div 2, DAY - 50, DAY - 10, DAY - 1}

Durations == {1, 10, 40, 50, 240, DAY - 1, DAY, DAY + 1, 2 * DAY}

WholeArchive ==
  Archive([arch |-> [c \in Chans |-> "full"], hdr |-> "same"])

InitDays ==
  \E d \in StartDays, o \in StartOffsets, n \in Durations,
     fs \in {WholeArchive, [WholeArchive EXCEPT !.dirs = {}]} :
    InitFn("call_find", [start_time |-> d * DAY + o, duration |-> n, fs |-> fs])

FindWaveformFiles ==
  /\ pc = "call_find"
  /\ res' = [check_days |-> CheckDays(inp.start_time, inp.duration),
             patterns |-> Patterns(inp.fs, NET, STA, inp.start_time, inp.duration),
             files |-> find_waveform_files(inp.fs, NET, STA, inp.start_time,
                                           inp.duration)]
  /\ pc' = "ret_find"
  /\ UNCHANGED <<inp, Others>>

SpecDays == InitDays /\ [][FindWaveformFiles]_vars

\* check_3c_completeness on a stream of up to MaxTraces traces
MaxTraces == 4

Codes == {BHZ, BHN, <<"b","h","e">>, BH1, BH2}

SampleCounts == {5, 9, 10}

TraceOf(chan, npts) ==
  [net |-> NET, sta |-> STA, chan |-> chan, b |-> 0, e |-> npts - 1, vel |-> FALSE]

Streams ==
  SeqsUpTo({TraceOf(c, n) : c \in Codes, n \in SampleCounts}, MaxTraces)

InitCompleteness == \E st \in Streams : InitFn("call_check", st)

Check3cCompleteness ==
  /\ pc = "call_check"
  /\ res' = check_3c_completeness(inp)
  /\ pc' = "ret_check"
  /\ UNCHANGED <<inp, Others>>

SpecCompleteness == InitCompleteness /\ [][Check3cCompleteness]_vars

\* load_catalog on a catalog of up to MaxCatRows rows
MaxCatRows == 3

TimeCells ==
  {TimeA, TimeB, <<2, 30, 0>>, <<13, 1, 0>>, <<1, 1, DAY>>, <<>>}

CatRows == {Row(t, lat) : t \in TimeCells, lat \in {Num(1), NotANumber}}

Headers ==
  {required_cols, {"Origin_Time ", "EVLO", " evla", "EvDp", "MAG"},
   required_cols \cup {"remark"}, required_cols \ {"evdp"}}

InitCatalog ==
  \E rows \in SeqsUpTo(CatRows, MaxCatRows), h \in Headers, x \in BOOLEAN :
    /\ (~x => rows = <<>> /\ h = required_cols)
    /\ InitFn("call_load", [exists |-> x, columns |-> h, rows |-> rows])

LoadCatalogFile ==
  /\ pc = "call_load"
  /\ res' = load_catalog(inp)
  /\ pc' = "ret_load"
  /\ UNCHANGED <<inp, Others>>

SpecCatalog == InitCatalog /\ [][LoadCatalogFile]_vars

\* ------------------------------------------------------------ the claims

Ran == last.outcome \notin {"idle", "crash"}

\* C1: a pass of the event body whose epicentral distance is outside
\* [MIN_DIST, MAX_DIST] writes no file, and a distance equal to MIN_DIST or
\* MAX_DIST is not rejected by the distance filter.
C1_DistanceFilter ==
  Ran =>
    /\ (last.dist < MIN_DIST \/ last.dist > MAX_DIST) =>
         last.outcome = "dist" /\ last.writes = <<>>
    /\ (last.dist = MIN_DIST \/ last.dist = MAX_DIST) => last.outcome # "dist"

C1_Witness ==
  /\ last.dist = MAX_DIST
  /\ last.outcome = "saved"
  /\ Len(last.writes) = 3

\* C2: once the catalog has loaded, main ends only after the loop: no failure
\* of the per-event body ends it early, and every event of every station
\* whose event loop was started has been visited.
C2_BatchNeverAborts ==
  pc \in {"done", "crashed"} =>
    /\ pc = "done"
    /\ \A d \in entered : \A i \in 1..Len(events) : <<d, i>> \in visited

\* C6: within one run no output path is written twice.
C6_WrittenOnce ==
  \A i, j \in 1..Len(log) : log[i] = log[j] => i = j

WinStart == last.arrival - OFFSET_PRE

WinEnd == last.arrival + OFFSET_POST

\* the merged archive data of the channel a written file holds
MergedOf(f) ==
  CHOOSE t \in Range(last.merged) : <<t.net, t.sta, t.chan>> = f.path[2]

\* C5 as stated: every file written starts at arrival - OFFSET_PRE and lasts
\* OFFSET_PRE + OFFSET_POST to within one sample, whatever the archive covers.
C5_ExactWindow ==
  \A k \in 1..Len(last.writes) :
    LET f == last.writes[k]
    IN /\ f.b = WinStart
       /\ (f.e - f.b) - (OFFSET_PRE + OFFSET_POST) \in {-1, 0, 1}

\* C5 amended: every file written lies within the window and covers exactly
\* the part of it that the merged archive data of its channel covers; where
\* that data covers the whole window the file starts at arrival - OFFSET_PRE
\* and lasts OFFSET_PRE + OFFSET_POST.
C5_CoveredWindow ==
  \A k \in 1..Len(last.writes) :
    LET f == last.writes[k]
        m == MergedOf(f)
    IN /\ WinStart <= f.b /\ f.e <= WinEnd
       /\ f.b = (IF m.b > WinStart THEN m.b ELSE WinStart)
       /\ f.e = (IF m.e < WinEnd THEN m.e ELSE WinEnd)
       /\ (m.b <= WinStart /\ m.e >= WinEnd) =>
            f.b = WinStart /\ f.e - f.b = OFFSET_PRE + OFFSET_POST

C5_Witness ==
  /\ last.outcome = "saved"
  /\ \E j, k \in 1..Len(last.writes) :
       /\ last.writes[j].b = WinStart /\ last.writes[j].e = WinEnd
       /\ last.writes[k].b > WinStart

\* C9: when a channel of the stream handed to process_and_save has no sample
\* in [arrival - OFFSET_PRE, arrival + OFFSET_POST], or fewer than 3 channels
\* have one, no file is written for the pair.
C9_NoFileOnEmptyChannel ==
  last.outcome = "saved" =>
    LET has == {i \in 1..Len(last.st) : last.st[i].b <= WinEnd /\ last.st[i].e >= WinStart}
    IN (Cardinality(has) < 3 \/ Cardinality(has) < Len(last.st)) => last.writes = <<>>

\* C10: in mode sacpz or resp every channel whose response file is found
\* and can be removed has its response removed, whatever happens to the
\* other channels.
C10_FailureConfined ==
  (last.outcome = "saved" /\ world.mode \in {"sacpz", "resp"}) =>
    \A i \in 1..Len(last.st) :
      world.resp.chan[last.st[i].chan] = "good" => last.st[i].vel

HasComp(st, upper, lower) ==
  \E i \in 1..Len(st) : st[i].chan[Len(st[i].chan)] \in {upper, lower}

Complete3c(st) ==
  /\ Len(st) >= 3
  /\ HasComp(st, "Z", "z")
  /\ \/ HasComp(st, "N", "n") /\ HasComp(st, "E", "e")
     \/ HasComp(st, "1", "1") /\ HasComp(st, "2", "2")
  /\ \A i \in 1..Len(st) : st[i].e - st[i].b + 1 >= 10

\* C3: check_3c_completeness returns True exactly when the stream has at
\* least 3 records, the last characters of the channel codes, upper-cased,
\* hold Z with N and E or with 1 and 2, and every record has at least 10
\* samples; {BHZ, BHN} is rejected, {BHZ, BH1, BH2} with 10 samples each is
\* accepted, three channels of which one has 5 samples are rejected.
C3_CompletenessIff ==
  pc = "ret_check" =>
    /\ res = Complete3c(inp)
    /\ inp = <<TraceOf(BHZ, 10), TraceOf(BHN, 10)>> => res = FALSE
    /\ inp = <<TraceOf(BHZ, 10), TraceOf(BH1, 10), TraceOf(BH2, 10)>> => res = TRUE
    /\ inp = <<TraceOf(BHZ, 10), TraceOf(BH1, 5), TraceOf(BH2, 10)>> => res = FALSE

C3_Witness ==
  /\ pc = "ret_check"
  /\ res = TRUE
  /\ Len(inp) = 4
  /\ \E i \in 1..4 : inp[i].chan = <<"b","h","e">>

TouchedDays(start_time, duration) ==
  {d \in 0..400 : d * DAY < start_time + duration /\ (d + 1) * DAY > start_time}

\* C4: the days find_waveform_files enumerates, and builds file name
\* patterns for when the station directory exists, are exactly the days
\* that [start, start + duration) touches; from 23:59:50 a window of 40 s
\* gives two days.
C4_TouchedDays ==
  pc = "ret_find" =>
    LET touched == TouchedDays(inp.start_time, inp.duration)
    IN /\ Range(res.check_days) = {d * DAY : d \in touched}
       /\ Len(res.check_days) = Cardinality(touched)
       /\ inp.fs.dirs # {} => res.patterns = {DateStr(d * DAY) : d \in touched}
       /\ (inp.start_time % DAY = DAY - 10 /\ inp.duration = 40) =>
            Cardinality(res.patterns) = (IF inp.fs.dirs # {} THEN 2 ELSE 0)

C4_Witness ==
  /\ pc = "ret_find"
  /\ inp.start_time = DAY - 10
  /\ inp.duration = 40
  /\ res.patterns = {<<2021, 1, 1>>, <<2021, 1, 2>>}
  /\ Len(res.files) = 8

\* C7: of a catalog that exists and has the required columns load_catalog
\* returns, without raising, one event per row whose origin_time parses, in
\* row order.
C7_OneEventPerValidRow ==
  (pc = "ret_load" /\ inp.exists
     /\ required_cols \subseteq {NormCol(c) : c \in inp.columns}) =>
    LET good == SelectSeq(inp.rows, LAMBDA r : Parses(r.origin_time))
    IN /\ res.ok
       /\ Len(res.events) = Len(good)
       /\ \A k \in 1..Len(good) :
            /\ res.events[k].time = TimeOf(good[k].origin_time)
            /\ res.events[k].lat = good[k].evla

C7_Witness ==
  /\ pc = "ret_load"
  /\ Len(inp.rows) = 3
  /\ ~Parses(inp.rows[2].origin_time)
  /\ Len(res.events) = 2
  /\ res.events[1].time = 50000
  /\ res.events[2].time = 84900

====
